---- MODULE Spec2Model ----
(***************************************************************************)
(* Emoji face detector (src/app.js): the nearest-centroid face tracker,    *)
(* the per-track expression smoother and the asynchronous camera / image   *)
(* handlers that drive them.                                               *)
(*                                                                         *)
(* Units.  Coordinates are kept in half pixels (centerOf returns           *)
(* 2*x + width), so that centroids of integer boxes stay integral; a       *)
(* distance d in pixels is represented by d2 = (2d)^2.  Expression         *)
(* probabilities are exact rationals <<n, d>> in lowest terms; <<0, 0>>    *)
(* is NaN.  A JavaScript value that may be undefined is << >> when it is   *)
(* undefined and <<v>> when it is the value v.                             *)
(***************************************************************************)
EXTENDS Integers, Sequences, FiniteSets, TLC

\* ---------------------------------------------------------------- bounds
MaxFrames == 3   \* assignTracks executions in one behaviour
MaxBatch == 2    \* detections in one batch
MaxLoops == 2    \* camera loop chains (and pending startCamera calls)
MaxImages == 1   \* image loads in flight
MaxEmaSteps == 3 \* repeated smoother applications in SpecEma

\* ------------------------------------------------------ program constants
MatchWindowMs == 1500
ExpiryWindowMs == 3000
BestDInit == 99999
Alpha == <<3, 5>>

\* --------------------------------------------------------------- rationals
RECURSIVE Gcd(_, _)
Gcd(a, b) == IF b = 0 THEN a ELSE Gcd(b, a % b)

Abs(n) == IF n < 0 THEN -n ELSE n

NaN == <<0, 0>>

Rat(n, d) ==
  IF d = 0 THEN NaN
  ELSE LET g == Gcd(Abs(n), Abs(d))
           s == IF d < 0 THEN -1 ELSE 1
       IN <<s * (n \div g), s * (d \div g)>>

\* operands in lowest terms; common factors are cancelled before
\* multiplying
RatAdd(p, q) ==
  IF p = NaN \/ q = NaN THEN NaN
  ELSE LET g == Gcd(p[2], q[2])
       IN Rat(p[1] * (q[2] \div g) + q[1] * (p[2] \div g), (p[2] \div g) * q[2])

RatMul(p, q) ==
  IF p = NaN \/ q = NaN THEN NaN
  ELSE LET g1 == Gcd(Abs(p[1]), q[2])
           g2 == Gcd(Abs(q[1]), p[2])
       IN Rat((p[1] \div g1) * (q[1] \div g2), (p[2] \div g2) * (q[2] \div g1))

RatSub(p, q) == RatAdd(p, RatMul(<<-1, 1>>, q))

One == <<1, 1>>

\* -------------------------------------------------------------- smoother
Undefined == << >>
Some(v) == <<v>>

\* prev[k] of a JavaScript object: undefined (NaN in arithmetic) if absent
Get(obj, k) == IF k \in DOMAIN obj THEN obj[k] ELSE NaN

emaExpressionsSwapped(prev, cur, alpha) ==
  IF prev = Undefined THEN cur
  ELSE Some([k \in DOMAIN cur[1] |->
               RatAdd(RatMul(RatSub(One, alpha), Get(prev[1], k)),
                      RatMul(alpha, cur[1][k]))])

emaExpressionsNoWeight(prev, cur, alpha) ==
  IF prev = Undefined THEN cur
  ELSE Some([k \in DOMAIN cur[1] |->
               RatAdd(RatMul(alpha, Get(prev[1], k)), cur[1][k])])

emaExpressionsNoCold(prev, cur, alpha) ==
  IF prev = Undefined
  THEN Some([k \in DOMAIN cur[1] |-> RatMul(RatSub(One, alpha), cur[1][k])])
  ELSE Some([k \in DOMAIN cur[1] |->
               RatAdd(RatMul(alpha, Get(prev[1], k)),
                      RatMul(RatSub(One, alpha), cur[1][k]))])

emaExpressions(prev, cur, alpha) ==
  IF prev = Undefined THEN cur
  ELSE Some([k \in DOMAIN cur[1] |->
               RatAdd(RatMul(alpha, Get(prev[1], k)),
                      RatMul(RatSub(One, alpha), cur[1][k]))])

\* --------------------------------------------------------------- geometry
Max(a, b) == IF a > b THEN a ELSE b

centerOf(box) == [x |-> 2 * box.x + box.width, y |-> 2 * box.y + box.height]

\* squared half-pixel distance between a centroid and a track
Hypot2(c, t) == (c.x - t.cx) * (c.x - t.cx) + (c.y - t.cy) * (c.y - t.cy)

\* sqrt(d2) / 2 < m, for d2 a squared half-pixel distance and m in pixels;
\* beyond 23170 pixels (2m)^2 exceeds every representable d2
HypotLess(d2, m) == m > 23170 \/ d2 < (2 * m) * (2 * m)


\* ------------------------------------------------------------ track table
\* tracks is a JavaScript Map: entries in insertion order, one per key.
MapHas(T, id) == \E i \in 1..Len(T) : T[i].id = id

MapIndex(T, id) == CHOOSE i \in 1..Len(T) : T[i].id = id

MapGet(T, id) == T[MapIndex(T, id)]

MapSet(T, id, v) ==
  IF MapHas(T, id)
  THEN [T EXCEPT ![MapIndex(T, id)] = [v EXCEPT !.id = id]]
  ELSE Append(T, [v EXCEPT !.id = id])

MapKeys(T) == {T[i].id : i \in 1..Len(T)}

RECURSIVE MapFilterOut(_, _, _)
\* the entries of T left after deleting, in iteration order, those older
\* than window at time now
MapFilterOut(T, now, window) ==
  IF T = << >> THEN << >>
  ELSE IF now - Head(T).lastSeen > window
       THEN MapFilterOut(Tail(T), now, window)
       ELSE <<Head(T)>> \o MapFilterOut(Tail(T), now, window)

\* ------------------------------------------------------------ assignTracks
NoBest == [id |-> 0, d2 |-> 0]

CloserOrEqualToBest(d2, best) ==
  IF best.id = 0 THEN HypotLess(d2, BestDInit) ELSE d2 <= best.d2

CloserThanBestFarthest(d2, best) ==
  IF best.id = 0 THEN HypotLess(d2, BestDInit) ELSE d2 > best.d2

\* d < bestD: bestD is 99999 until a first candidate is taken
CloserThanBest(d2, best) ==
  IF best.id = 0 THEN HypotLess(d2, BestDInit) ELSE d2 < best.d2

IsStaleInclusive(t, now) == now - t.lastSeen >= MatchWindowMs

IsStale(t, now) == now - t.lastSeen > MatchWindowMs

RECURSIVE NearestActive(_, _, _, _, _)
\* lines 89-95: scan of tracks.entries() from entry i on
NearestActive(T, i, c, now, best) ==
  IF i > Len(T) THEN best
  ELSE IF IsStale(T[i], now) THEN NearestActive(T, i + 1, c, now, best)
  ELSE LET d2 == Hypot2(c, T[i])
       IN IF CloserThanBest(d2, best)
          THEN NearestActive(T, i + 1, c, now, [id |-> T[i].id, d2 |-> d2])
          ELSE NearestActive(T, i + 1, c, now, best)

AcceptsInclusive(best, box) ==
  /\ best.id # 0
  /\ (best.d2 = (2 * Max(box.width, box.height)) * (2 * Max(box.width, box.height))
      \/ HypotLess(best.d2, Max(box.width, box.height)))

\* line 96
Accepts(best, box) ==
  /\ best.id # 0
  /\ HypotLess(best.d2, Max(box.width, box.height))

TouchNoMove(t, c, now, det) ==
  [t EXCEPT !.lastSeen = now,
            !.exprEMA = emaExpressions(t.exprEMA, det.expressions, Alpha)]

TouchNoSmooth(t, c, now, det) ==
  [t EXCEPT !.cx = c.x, !.cy = c.y, !.lastSeen = now,
            !.exprEMA = det.expressions]

\* lines 98-101: the matched entry, mutated in place
Touch(t, c, now, det) ==
  [t EXCEPT !.cx = c.x, !.cy = c.y, !.lastSeen = now,
            !.exprEMA = emaExpressions(t.exprEMA, det.expressions, Alpha)]

NewTrackNoTime(c, now, det) ==
  [id |-> 0, cx |-> c.x, cy |-> c.y, lastSeen |-> 0,
   exprEMA |-> det.expressions]

\* line 106
NewTrack(c, now, det) ==
  [id |-> 0, cx |-> c.x, cy |-> c.y, lastSeen |-> now,
   exprEMA |-> det.expressions]

\* lines 88-108: the body of the per-detection loop
AssignOneReuse(T, nid, det, now) ==
  LET c == centerOf(det.box)
      best == NearestActive(T, 1, c, now, NoBest)
  IN IF Accepts(best, det.box)
     THEN [tracks |-> MapSet(T, best.id, Touch(MapGet(T, best.id), c, now, det)),
           nextId |-> nid,
           trackId |-> best.id]
     ELSE [tracks |-> MapSet(T, Len(T) + 1, NewTrack(c, now, det)),
           nextId |-> Len(T) + 2,
           trackId |-> Len(T) + 1]

AssignOneBumps(T, nid, det, now) ==
  LET c == centerOf(det.box)
      best == NearestActive(T, 1, c, now, NoBest)
  IN IF Accepts(best, det.box)
     THEN [tracks |-> MapSet(T, best.id, Touch(MapGet(T, best.id), c, now, det)),
           nextId |-> nid + 1,
           trackId |-> best.id]
     ELSE [tracks |-> MapSet(T, nid, NewTrack(c, now, det)),
           nextId |-> nid + 1,
           trackId |-> nid]

AssignOne(T, nid, det, now) ==
  LET c == centerOf(det.box)
      best == NearestActive(T, 1, c, now, NoBest)
  IN IF Accepts(best, det.box)
     THEN [tracks |-> MapSet(T, best.id, Touch(MapGet(T, best.id), c, now, det)),
           nextId |-> nid,
           trackId |-> best.id]
     ELSE [tracks |-> MapSet(T, nid, NewTrack(c, now, det)),
           nextId |-> nid + 1,
           trackId |-> nid]

ExpireStaleNever(T, now) == T

ExpireStaleMatchWindow(T, now) == MapFilterOut(T, now, MatchWindowMs)

\* lines 111-113
ExpireStale(T, now) == MapFilterOut(T, now, ExpiryWindowMs)


\* ------------------------------------------------------ drawBoxesAndEmojis
\* line 125: v > score; false as soon as one side is NaN
RatGt(p, q) == p # NaN /\ q # NaN /\ p[1] * q[2] > q[1] * p[2]

\* Object.entries visits the keys in the order the detector wrote them
ExprKeys == <<"neutral", "happy">>

\* Object.entries(undefined) throws
TypeError == [name |-> "TypeError", score |-> NaN]

RECURSIVE BestFrom(_, _, _)
BestFrom(e, ks, best) ==
  IF ks = << >> THEN best
  ELSE IF Head(ks) \in DOMAIN e /\ RatGt(e[Head(ks)], best.score)
       THEN BestFrom(e, Tail(ks), [name |-> Head(ks), score |-> e[Head(ks)]])
       ELSE BestFrom(e, Tail(ks), best)

\* lines 123-127
bestExpression(exprs) ==
  IF exprs = Undefined THEN TypeError
  ELSE BestFrom(exprs[1], ExprKeys, [name |-> "neutral", score |-> <<0, 1>>])

\* tracks.get(id)?.exprEMA
ExprEMAOf(T, id) == IF MapHas(T, id) THEN MapGet(T, id).exprEMA ELSE Undefined

SidebarExprNoFallback(det, T) == ExprEMAOf(T, det.trackId)

\* line 136: det.trackId && tracks.get(det.trackId)?.exprEMA || det.expressions
\* (trackId 0 is the unset trackId)
SidebarExpr(det, T) ==
  LET a == IF det.trackId = 0 THEN Undefined ELSE ExprEMAOf(T, det.trackId)
  IN IF a # Undefined THEN a ELSE det.expressions

\* lines 148-149: id = det.trackId ?? '?', then the same lookup with id;
\* '?' is truthy and never a key of the table, as 0 is none here
FaceExpr(det, T) ==
  LET a == ExprEMAOf(T, det.trackId)
  IN IF a # Undefined THEN a ELSE det.expressions


\* ------------------------------------------------------------------ inputs
\* what the detector may return and how far the clock may move between
\* two batches
E1 == [happy |-> <<9, 10>>, neutral |-> <<1, 10>>]
E2 == [happy |-> <<1, 2>>, neutral |-> <<1, 2>>]

Det(x, y, w, h, e) ==
  [box |-> [x |-> x, y |-> y, width |-> w, height |-> h],
   expressions |-> Some(e), trackId |-> 0]

DetA == Det(10, 10, 40, 40, E1)    \* centroid (30, 30)
DetB == Det(12, 11, 40, 40, E2)    \* centroid (32, 31)
DetC == Det(65, 10, 10, 40, E1)    \* centroid (70, 30), 40 px from DetA
DetFar == Det(275, 275, 50, 50, E2) \* centroid (300, 300)

DetMid == Det(30, 10, 40, 40, E2)  \* centroid (50, 30), halfway from DetA to DetC

Dets == {DetA, DetB, DetC, DetFar}

BatchesOf(D) == UNION {[1..n -> D] : n \in 0..MaxBatch}

Batches == BatchesOf(Dets)

Deltas == {50, 1500, 3001}

\* the smaller inputs used where the handlers interleave
CamBatches == BatchesOf({DetA})

CamDeltas == {50, 3001}

\* ------------------------------------------------------------------- state
VARIABLES
  tracks,    \* the Map tracks (line 53)
  nextId,    \* line 54
  running,   \* line 49
  stream,    \* line 48: TRUE when a MediaStream is held
  clock,     \* performance.now()
  cur,       \* the activation running on the JavaScript thread, 0 if none
  pc,        \* position of each loop chain / image load
  dets,      \* the local `detections` of each activation
  idx,       \* position of the for-of loop of assignTracks
  fnow,      \* the local `now` of assignTracks
  gum,       \* startCamera calls awaiting getUserMedia
  play,      \* startCamera calls awaiting video.play()
  frames,    \* assignTracks executions so far
  lastDetections, \* line 51
  ema,       \* a direct call of emaExpressions (SpecEma only)
  ren        \* a direct call of the expression lookups (SpecRender only)

vars == <<tracks, nextId, running, stream, clock, cur, pc, dets, idx, fnow,
          gum, play, frames, lastDetections, ema, ren>>

LoopProcs == 1..MaxLoops
ImageProcs == (MaxLoops + 1)..(MaxLoops + MaxImages)
Procs == LoopProcs \cup ImageProcs

RenNone == [det |-> Undefined, tracks |-> << >>, side |-> Undefined,
            face |-> Undefined]

EmaNone == [n |-> 0, prev |-> Undefined, cur |-> Undefined, alpha |-> One,
            out |-> Undefined]

Init ==
  /\ tracks = << >>
  /\ nextId = 1
  /\ running = FALSE
  /\ stream = FALSE
  /\ clock = 0
  /\ cur = 0
  /\ pc = [p \in Procs |-> "off"]
  /\ dets = [p \in Procs |-> << >>]
  /\ idx = [p \in Procs |-> 0]
  /\ fnow = [p \in Procs |-> 0]
  /\ gum = 0
  /\ play = 0
  /\ frames = 0
  /\ lastDetections = << >>
  /\ ema = EmaNone
  /\ ren = RenNone

\* ------------------------------------------------------------- event loop
\* An activation is suspended (at an await, or waiting for its callback)
\* exactly at these positions; everywhere else it runs to completion.
SuspendedAtAssignToo(q) == q \in {"off", "raf", "load", "detect", "assign"}

Suspended(q) == q \in {"off", "raf", "load", "detect"}

\* a new task (event handler, timer, promise continuation) may start
Idle == cur = 0

\* activation p executes its next synchronous step
Runs(p) == cur = p

\* after a step that leaves p at q
Yield(p, q) == IF Suspended(q) THEN 0 ELSE p

InAssign(p) == pc[p] \in {"assign", "cleanup"}

Chains == {p \in LoopProcs : pc[p] # "off"}

trackerVars == <<tracks, nextId, clock, dets, idx, fnow, frames>>

\* ------------------------------------------------------------------ camera
\* lines 223-226: startCamera up to its first await
StartCamera ==
  /\ Idle
  /\ gum + play + Cardinality(Chains) < MaxLoops
  /\ ~running
  /\ gum' = gum + 1
  /\ UNCHANGED <<trackerVars, running, stream, cur, pc, play, lastDetections, ema, ren>>

\* line 224: startCamera while running returns at once
StartCameraRunning ==
  /\ Idle
  /\ running
  /\ UNCHANGED vars

\* line 226 resolved, line 227 up to its await
GumResolve ==
  /\ Idle
  /\ gum > 0
  /\ stream' = TRUE
  /\ gum' = gum - 1
  /\ play' = play + 1
  /\ UNCHANGED <<trackerVars, running, cur, pc, lastDetections, ema, ren>>

\* line 226 rejected: lines 232-234
GumReject ==
  /\ Idle
  /\ gum > 0
  /\ gum' = gum - 1
  /\ UNCHANGED <<trackerVars, running, stream, cur, pc, play, lastDetections, ema, ren>>

\* line 227 rejected: lines 232-234
PlayReject ==
  /\ Idle
  /\ play > 0
  /\ play' = play - 1
  /\ UNCHANGED <<trackerVars, running, stream, cur, pc, gum, lastDetections, ema, ren>>

\* line 227 resolved, lines 228-231, and loop() (lines 243-256) up to its await
PlayResolve ==
  /\ Idle
  /\ play > 0
  /\ play' = play - 1
  /\ running' = TRUE
  /\ \E p \in LoopProcs :
       /\ pc[p] = "off"
       /\ \A q \in LoopProcs : q < p => pc[q] # "off"
       /\ pc' = [pc EXCEPT ![p] = "detect"]
  /\ UNCHANGED <<trackerVars, stream, cur, gum, lastDetections, ema, ren>>

\* lines 236-239
StopCamera ==
  /\ Idle
  /\ stream' = FALSE
  /\ running' = FALSE
  /\ UNCHANGED <<trackerVars, cur, pc, gum, play, lastDetections, ema, ren>>

\* lines 242-256: loop() called by requestAnimationFrame, up to its await
LoopFrame(p) ==
  /\ Idle
  /\ p \in LoopProcs
  /\ pc[p] = "raf"
  /\ pc' = [pc EXCEPT ![p] = IF running THEN "detect" ELSE "off"]
  /\ UNCHANGED <<trackerVars, running, stream, cur, gum, play, lastDetections, ema, ren>>

\* ------------------------------------------------------------------- image
\* lines 278-281 and 299: a file is chosen
FileChange(p) ==
  /\ Idle
  /\ p \in ImageProcs
  /\ pc[p] = "off"
  /\ stream' = FALSE
  /\ running' = FALSE
  /\ pc' = [pc EXCEPT ![p] = "load"]
  /\ UNCHANGED <<trackerVars, cur, gum, play, lastDetections, ema, ren>>

\* lines 282-293: img.onload up to its await
ImageLoad(p) ==
  /\ Idle
  /\ p \in ImageProcs
  /\ pc[p] = "load"
  /\ pc' = [pc EXCEPT ![p] = "detect"]
  /\ UNCHANGED <<trackerVars, running, stream, cur, gum, play, lastDetections, ema, ren>>

\* ------------------------------------------------------------ batch steps
\* lines 254-259 / 290-294: the detector's promise resolves, the activation
\* resumes and enters assignTracks (lines 85-86)
Resume(p, B, D) ==
  /\ pc[p] = "detect"
  /\ Idle
  /\ frames < MaxFrames
  /\ \E b \in B, d \in D :
       /\ dets' = [dets EXCEPT ![p] = b]
       /\ clock' = clock + d
       /\ fnow' = [fnow EXCEPT ![p] = clock + d]
       /\ idx' = [idx EXCEPT ![p] = 1]
       /\ pc' = [pc EXCEPT ![p] = IF b = << >> THEN "cleanup" ELSE "assign"]
       /\ cur' = Yield(p, IF b = << >> THEN "cleanup" ELSE "assign")
  /\ frames' = frames + 1
  /\ UNCHANGED <<tracks, nextId, running, stream, gum, play, lastDetections, ema, ren>>

\* lines 87-109: one iteration of the for-of loop
AssignDet(p) ==
  /\ pc[p] = "assign"
  /\ IF Suspended("assign") THEN Idle ELSE Runs(p)
  /\ LET r == AssignOne(tracks, nextId, dets[p][idx[p]], fnow[p])
         q == IF idx[p] = Len(dets[p]) THEN "cleanup" ELSE "assign"
     IN /\ tracks' = r.tracks
        /\ nextId' = r.nextId
        /\ dets' = [dets EXCEPT ![p][idx[p]].trackId = r.trackId]
        /\ idx' = [idx EXCEPT ![p] = idx[p] + 1]
        /\ pc' = [pc EXCEPT ![p] = q]
        /\ cur' = Yield(p, q)
  /\ UNCHANGED <<running, stream, clock, fnow, gum, play, frames, lastDetections, ema, ren>>

\* lines 110-113
AssignCleanup(p) ==
  /\ pc[p] = "cleanup"
  /\ IF Suspended("cleanup") THEN Idle ELSE Runs(p)
  /\ tracks' = ExpireStale(tracks, fnow[p])
  /\ pc' = [pc EXCEPT ![p] = "draw"]
  /\ cur' = Yield(p, "draw")
  /\ UNCHANGED <<nextId, running, stream, clock, dets, idx, fnow, gum, play,
                 frames, lastDetections, ema, ren>>

\* lines 267-275; ts (Date.now()) is left out, and toFixed(1) leaves the
\* integer box coordinates of the inputs as they are
serializeDetections(ds) ==
  [count |-> Len(ds),
   detections |-> [i \in 1..Len(ds) |->
                     [id |-> ds[i].trackId, box |-> ds[i].box,
                      expressions |-> ds[i].expressions]]]

\* lines 262-264: drawBoxesAndEmojis, then the next frame is requested
LoopDraw(p) ==
  /\ p \in LoopProcs
  /\ pc[p] = "draw"
  /\ Runs(p)
  /\ pc' = [pc EXCEPT ![p] = "raf"]
  /\ cur' = 0
  /\ dets' = [dets EXCEPT ![p] = << >>]
  /\ idx' = [idx EXCEPT ![p] = 0]
  /\ fnow' = [fnow EXCEPT ![p] = 0]
  /\ UNCHANGED <<tracks, nextId, running, stream, clock, gum, play, frames,
                 lastDetections, ema, ren>>

\* lines 295-297
ImageDraw(p) ==
  /\ p \in ImageProcs
  /\ pc[p] = "draw"
  /\ Runs(p)
  /\ lastDetections' = Some(serializeDetections(dets[p]))
  /\ pc' = [pc EXCEPT ![p] = "off"]
  /\ cur' = 0
  /\ dets' = [dets EXCEPT ![p] = << >>]
  /\ idx' = [idx EXCEPT ![p] = 0]
  /\ fnow' = [fnow EXCEPT ![p] = 0]
  /\ UNCHANGED <<tracks, nextId, running, stream, clock, gum, play, frames, ema, ren>>

Next ==
  \/ StartCamera
  \/ StartCameraRunning
  \/ GumResolve
  \/ GumReject
  \/ PlayReject
  \/ PlayResolve
  \/ StopCamera
  \/ \E p \in Procs : LoopFrame(p)
  \/ \E p \in Procs : FileChange(p)
  \/ \E p \in Procs : ImageLoad(p)
  \/ \E p \in Procs : Resume(p, CamBatches, CamDeltas)
  \/ \E p \in Procs : AssignDet(p)
  \/ \E p \in Procs : AssignCleanup(p)
  \/ \E p \in Procs : LoopDraw(p)
  \/ \E p \in Procs : ImageDraw(p)

Spec == Init /\ [][Next]_vars

\* The camera started once and left running: one loop chain delivers every
\* batch, drawn from the full input sets.
StartCameraOnce ==
  /\ gum + play + Cardinality(Chains) = 0
  /\ StartCamera

NextTrack ==
  \/ StartCameraOnce
  \/ GumResolve
  \/ PlayResolve
  \/ \E p \in LoopProcs : LoopFrame(p)
  \/ \E p \in LoopProcs : Resume(p, Batches, Deltas)
  \/ \E p \in LoopProcs : AssignDet(p)
  \/ \E p \in LoopProcs : AssignCleanup(p)
  \/ \E p \in LoopProcs : LoopDraw(p)

SpecTrack == Init /\ [][NextTrack]_vars

\* one camera chain on inputs that put a detection at the same distance
\* from two tracks
TieBatches == BatchesOf({DetA, DetC, DetMid})

TieDeltas == {50, 1500}

NextTie ==
  \/ StartCameraOnce
  \/ GumResolve
  \/ PlayResolve
  \/ \E p \in LoopProcs : LoopFrame(p)
  \/ \E p \in LoopProcs : Resume(p, TieBatches, TieDeltas)
  \/ \E p \in LoopProcs : AssignDet(p)
  \/ \E p \in LoopProcs : AssignCleanup(p)
  \/ \E p \in LoopProcs : LoopDraw(p)

SpecTie == Init /\ [][NextTie]_vars

\* one camera chain on fewer inputs, with the fairness the code gives:
\* assignTracks is synchronous, so its expiry pass follows its for-of loop
\* without waiting for anything
LiveBatches == BatchesOf({DetA, DetFar})

LiveDeltas == {1500, 3001}

NextLive ==
  \/ StartCameraOnce
  \/ GumResolve
  \/ PlayResolve
  \/ \E p \in LoopProcs : LoopFrame(p)
  \/ \E p \in LoopProcs : Resume(p, LiveBatches, LiveDeltas)
  \/ \E p \in LoopProcs : AssignDet(p)
  \/ \E p \in LoopProcs : AssignCleanup(p)
  \/ \E p \in LoopProcs : LoopDraw(p)

SpecLive ==
  /\ Init
  /\ [][NextLive]_vars
  /\ WF_vars(\E p \in LoopProcs : AssignCleanup(p))


\* ------------------------------------------------- the smoother on its own
\* emaExpressions applied to arguments drawn from these sets, then again
\* to its own result with the same current vector; the camera loop runs
\* beside it on batches of one detection that carries ema.cur.
E3 == [happy |-> <<1, 1>>]

EmaVectors == {Some(E1), Some(E2), Some(E3)}

EmaAlphas == {<<0, 1>>, <<3, 5>>, <<9, 10>>, <<1, 1>>}

InitEma ==
  /\ tracks = << >>
  /\ nextId = 1
  /\ running = FALSE
  /\ stream = FALSE
  /\ clock = 0
  /\ cur = 0
  /\ pc = [p \in Procs |-> "off"]
  /\ dets = [p \in Procs |-> << >>]
  /\ idx = [p \in Procs |-> 0]
  /\ fnow = [p \in Procs |-> 0]
  /\ gum = 0
  /\ play = 0
  /\ frames = 0
  /\ lastDetections = << >>
  /\ \E pv \in EmaVectors \cup {Undefined}, cv \in EmaVectors, a \in EmaAlphas :
       ema = [n |-> 0, prev |-> pv, cur |-> cv, alpha |-> a, out |-> pv]
  /\ ren = RenNone

\* lines 116-121, called with the previous result
EmaCall ==
  /\ ema.n < MaxEmaSteps
  /\ ema' = [ema EXCEPT !.n = ema.n + 1,
                        !.out = emaExpressions(ema.out, ema.cur, ema.alpha)]
  /\ UNCHANGED <<trackerVars, running, stream, cur, pc, gum, play, lastDetections,
                 ren>>

EmaBatches == {<<[DetA EXCEPT !.expressions = ema.cur]>>}

NextEma ==
  \/ EmaCall
  \/ StartCameraOnce
  \/ GumResolve
  \/ PlayResolve
  \/ \E p \in LoopProcs : LoopFrame(p)
  \/ \E p \in LoopProcs : Resume(p, EmaBatches, {50})
  \/ \E p \in LoopProcs : AssignDet(p)
  \/ \E p \in LoopProcs : AssignCleanup(p)
  \/ \E p \in LoopProcs : LoopDraw(p)

SpecEma == InitEma /\ [][NextEma]_vars

\* --------------------------------------------- the expression lookups alone
\* drawBoxesAndEmojis' two lookups called on a detection and a table chosen
\* at the start, beside the camera loop. The detector always supplies
\* det.expressions; the detection's trackId may be unset (0), a key of the
\* table or no key of it; an entry may lack its smoothed vector.
RenderDets ==
  {[d EXCEPT !.trackId = id] : d \in {DetA, DetB}, id \in {0, 1, 2}}

RenderTrack(id, e) ==
  [id |-> id, cx |-> 60, cy |-> 60, lastSeen |-> 0, exprEMA |-> e]

RenderTables ==
  {<< >>}
    \cup {<<RenderTrack(1, e)>> : e \in {Some(E1), Some(E2), Some(E3), Undefined}}
    \cup {<<RenderTrack(1, Some(E3)), RenderTrack(2, e)>> : e \in {Some(E2), Undefined}}

InitRender ==
  /\ tracks = << >>
  /\ nextId = 1
  /\ running = FALSE
  /\ stream = FALSE
  /\ clock = 0
  /\ cur = 0
  /\ pc = [p \in Procs |-> "off"]
  /\ dets = [p \in Procs |-> << >>]
  /\ idx = [p \in Procs |-> 0]
  /\ fnow = [p \in Procs |-> 0]
  /\ gum = 0
  /\ play = 0
  /\ frames = 0
  /\ lastDetections = << >>
  /\ ema = EmaNone
  /\ \E d \in RenderDets, T \in RenderTables :
       ren = [det |-> Some(d), tracks |-> T, side |-> Undefined, face |-> Undefined]

\* lines 136-137
RenderSidebar ==
  /\ ren.side = Undefined
  /\ LET em == SidebarExpr(ren.det[1], ren.tracks)
     IN ren' = [ren EXCEPT !.side = Some([em |-> em, best |-> bestExpression(em)])]
  /\ UNCHANGED <<trackerVars, running, stream, cur, pc, gum, play, lastDetections,
                 ema>>

\* lines 148-150
RenderFace ==
  /\ ren.face = Undefined
  /\ LET em == FaceExpr(ren.det[1], ren.tracks)
     IN ren' = [ren EXCEPT !.face = Some([em |-> em, best |-> bestExpression(em)])]
  /\ UNCHANGED <<trackerVars, running, stream, cur, pc, gum, play, lastDetections,
                 ema>>

RenderBatches == {<<DetA>>, <<DetB>>}

NextRender ==
  \/ RenderSidebar
  \/ RenderFace
  \/ StartCameraOnce
  \/ GumResolve
  \/ PlayResolve
  \/ \E p \in LoopProcs : LoopFrame(p)
  \/ \E p \in LoopProcs : Resume(p, RenderBatches, {50})
  \/ \E p \in LoopProcs : AssignDet(p)
  \/ \E p \in LoopProcs : AssignCleanup(p)
  \/ \E p \in LoopProcs : LoopDraw(p)

SpecRender == InitRender /\ [][NextRender]_vars


\* ================================================================ claims
\* an AssignDet step / an AssignCleanup step of activation p
AssignStep(p) == pc[p] = "assign" /\ idx'[p] = idx[p] + 1

CleanupStep(p) == pc[p] = "cleanup" /\ pc'[p] = "draw"

AssignedIds(ds) == {ds[i].trackId : i \in 1..Len(ds)} \ {0}

\* squared half-pixel acceptance radius of a detection: (2 * max(w, h))^2
Radius2(det) ==
  (2 * Max(det.box.width, det.box.height)) * (2 * Max(det.box.width, det.box.height))

\* C1: within one frame no two detections of the batch are assigned the
\* same track identity.
C1_NoSharedTrack ==
  \A p \in Procs : \A i, j \in 1..Len(dets[p]) :
    (i # j /\ dets[p][i].trackId # 0 /\ dets[p][j].trackId # 0)
      => dets[p][i].trackId # dets[p][j].trackId

\* C2: every newly created track gets an identity strictly greater than
\* every identity created before it (all of which are below nextId); no
\* identity is handed out twice; an identity that left the table never
\* comes back to the table or onto a later detection.
C2_IdentityMonotone ==
  [][/\ nextId' >= nextId
     /\ MapKeys(tracks') \ MapKeys(tracks) = nextId..(nextId' - 1)
     /\ \A id \in MapKeys(tracks') : id < nextId'
     /\ \A i, j \in 1..Len(tracks') : tracks'[i].id = tracks'[j].id => i = j
     /\ \A p \in Procs :
          /\ AssignedIds(dets'[p]) \subseteq 1..(nextId' - 1)
          /\ AssignedIds(dets'[p]) \ AssignedIds(dets[p])
               \subseteq MapKeys(tracks) \cup nextId..(nextId' - 1)]_vars

\* identities 1 and 2 were deleted by expiry and a detection of a later
\* frame got identity 3
C2_Witness ==
  /\ ~MapHas(tracks, 1)
  /\ ~MapHas(tracks, 2)
  /\ \E p \in Procs : pc[p] = "draw" /\ 3 \in AssignedIds(dets[p])

\* C3: a track last matched at T, in a frame at time now: with
\* now - T <= 1500 it is a matching candidate (a detection within reach of it
\* is matched, not given a new identity); with now - T > 1500 it is never
\* matched and is left as it is, and a detection gets a new identity when
\* only such tracks exist; it is in the table after the frame exactly when
\* now - T <= 3000.
C3_Windows ==
  [][\A p \in Procs :
       /\ AssignStep(p) =>
            LET det == dets[p][idx[p]]
                c == centerOf(det.box)
                got == dets'[p][idx[p]].trackId
            IN /\ \A i \in 1..Len(tracks) :
                    LET t == tracks[i]
                    IN /\ (fnow[p] - t.lastSeen <= 1500 /\ Hypot2(c, t) < Radius2(det))
                            => (nextId' = nextId /\ MapHas(tracks, got))
                       /\ fnow[p] - t.lastSeen > 1500
                            => (got # t.id /\ MapHas(tracks', t.id)
                                /\ MapGet(tracks', t.id) = t)
               /\ (\A i \in 1..Len(tracks) : fnow[p] - tracks[i].lastSeen > 1500)
                    => (got = nextId /\ nextId' = nextId + 1)
       /\ CleanupStep(p) =>
            \A i \in 1..Len(tracks) :
              MapHas(tracks', tracks[i].id) <=> fnow[p] - tracks[i].lastSeen <= 3000]_vars

\* a track outside the match window but inside the expiry window survived
\* a frame in which a detection at its exact centroid got another identity
C3_Witness ==
  \E p \in Procs :
    /\ pc[p] = "draw"
    /\ \E i \in 1..Len(tracks), j \in 1..Len(dets[p]) :
         /\ fnow[p] - tracks[i].lastSeen > 1500
         /\ fnow[p] - tracks[i].lastSeen <= 3000
         /\ centerOf(dets[p][j].box) = [x |-> tracks[i].cx, y |-> tracks[i].cy]
         /\ dets[p][j].trackId > tracks[i].id


\* the tracks inside the match window at time now, and the least squared
\* distance from c to one of them
ActiveTracks(T, now) == {i \in 1..Len(T) : now - T[i].lastSeen <= 1500}

IsNearest(T, now, c, i) ==
  /\ i \in ActiveTracks(T, now)
  /\ \A j \in ActiveTracks(T, now) : Hypot2(c, T[i]) <= Hypot2(c, T[j])

\* C4: the nearest active track is accepted iff its distance to the
\* detection's centroid is strictly below max(width, height) of the
\* detection's box; then the detection gets that track's identity and no
\* identity is created; otherwise (rejected, or no active track) it gets a
\* newly created identity above every earlier one.
C4_Acceptance ==
  [][\A p \in Procs : AssignStep(p) =>
       LET det == dets[p][idx[p]]
           c == centerOf(det.box)
           got == dets'[p][idx[p]].trackId
           near == {i \in 1..Len(tracks) : IsNearest(tracks, fnow[p], c, i)}
       IN IF \E i \in near : Hypot2(c, tracks[i]) < Radius2(det)
          THEN /\ \E i \in near : got = tracks[i].id
               /\ nextId' = nextId
               /\ MapKeys(tracks') = MapKeys(tracks)
          ELSE /\ got = nextId
               /\ nextId' = nextId + 1
               /\ MapKeys(tracks') = MapKeys(tracks) \cup {got}
               /\ \A id \in MapKeys(tracks) : got > id]_vars

\* second frame, one track so far: DetB, within reach of it, keeps
\* identity 1 and DetFar at (300, 300) is given the new identity 2
C4_Witness ==
  \E p \in Procs :
    /\ pc[p] = "cleanup"
    /\ frames = 2
    /\ dets[p] = <<[DetB EXCEPT !.trackId = 1], [DetFar EXCEPT !.trackId = 2]>>
    /\ MapKeys(tracks) = {1, 2}

\* a detection exactly max(width, height) away from the only active track
\* is rejected
C4_BoundaryWitness ==
  \E p \in Procs :
    /\ pc[p] = "cleanup"
    /\ frames = 2
    /\ dets[p] = <<[DetC EXCEPT !.trackId = 2]>>
    /\ Len(tracks) = 2
    /\ tracks[1].cx = 60 /\ tracks[1].cy = 60 /\ fnow[p] - tracks[1].lastSeen = 50


\* the table after a first frame <<DetA>> at time t, and after a second
\* frame <<DetB>> at time t
TableA(t) ==
  <<[id |-> 1, cx |-> 60, cy |-> 60, lastSeen |-> t, exprEMA |-> Some(E1)]>>

TableAB(t) ==
  <<[id |-> 1, cx |-> 64, cy |-> 62, lastSeen |-> t,
     exprEMA |-> Some([happy |-> <<37, 50>>, neutral |-> <<13, 50>>])]>>

\* C5: on an empty table a frame with the one detection DetA (box
\* {10,10,40,40}, {happy 0.9, neutral 0.1}) yields identity 1 with smoothed
\* expression {0.9, 0.1}; a frame 50 ms later with the one detection DetB
\* (box {12,11,40,40}, {0.5, 0.5}) yields identity 1 again, no new track,
\* with smoothed expression {happy 0.74, neutral 0.26}.
C5_TwoFrames ==
  [][\A p \in Procs :
       /\ (AssignStep(p) /\ tracks = << >> /\ nextId = 1 /\ dets[p] = <<DetA>>)
            => (/\ dets'[p] = <<[DetA EXCEPT !.trackId = 1]>>
                /\ tracks' = TableA(fnow[p])
                /\ nextId' = 2)
       /\ (AssignStep(p) /\ tracks = TableA(fnow[p] - 50) /\ nextId = 2
           /\ dets[p] = <<DetB>>)
            => (/\ dets'[p] = <<[DetB EXCEPT !.trackId = 1]>>
                /\ tracks' = TableAB(fnow[p])
                /\ nextId' = 2)
       /\ (CleanupStep(p) /\ tracks \in {TableA(fnow[p]), TableAB(fnow[p])})
            => tracks' = tracks]_vars

\* the scenario's second frame has been processed
C5_Witness ==
  \E p \in Procs :
    /\ pc[p] = "draw"
    /\ frames = 2
    /\ fnow[p] = 100
    /\ dets[p] = <<[DetB EXCEPT !.trackId = 1]>>
    /\ tracks = TableAB(100)
    /\ nextId = 2

\* the detections of activation p processed so far
Done(p) == 1..(idx[p] - 1)

\* C6: detections are processed in input order, each against the table as
\* the earlier ones of the frame left it: the track of every processed
\* detection stands at the centroid of the last processed detection that
\* was given its identity, with lastSeen = now; so when a first detection
\* has claimed the single existing track, the second is matched to it iff
\* its distance to the first detection's centroid is below its own
\* max(width, height), and otherwise spawns a new track.
C6_Greedy ==
  /\ [](\A p \in Procs : pc[p] \in {"assign", "cleanup"} =>
          /\ \A i \in 1..Len(dets[p]) : dets[p][i].trackId # 0 <=> i \in Done(p)
          /\ \A i \in Done(p) :
               /\ MapHas(tracks, dets[p][i].trackId)
               /\ MapGet(tracks, dets[p][i].trackId).lastSeen = fnow[p]
               /\ (\A j \in Done(p) : j > i => dets[p][j].trackId # dets[p][i].trackId)
                    => LET t == MapGet(tracks, dets[p][i].trackId)
                       IN [x |-> t.cx, y |-> t.cy] = centerOf(dets[p][i].box))
  /\ [][\A p \in Procs :
          (AssignStep(p) /\ idx[p] = 2 /\ Len(tracks) = 1
           /\ dets[p][1].trackId = tracks[1].id)
            => LET first == centerOf(dets[p][1].box)
                   c == centerOf(dets[p][2].box)
                   d2 == (c.x - first.x) * (c.x - first.x)
                           + (c.y - first.y) * (c.y - first.y)
                   got == dets'[p][2].trackId
               IN IF d2 < Radius2(dets[p][2])
                  THEN got = tracks[1].id /\ Len(tracks') = 1
                  ELSE got = nextId /\ Len(tracks') = 2]_vars

\* the track made from DetA is claimed by DetB and moves to (32, 31); DetC,
\* 40 px from the old centroid but 38 px from the new one, is then matched
\* to it as well
C6_Witness ==
  \E p \in Procs :
    /\ pc[p] = "cleanup"
    /\ frames = 2
    /\ dets[p] = <<[DetB EXCEPT !.trackId = 1], [DetC EXCEPT !.trackId = 1]>>
    /\ Len(tracks) = 1
    /\ tracks[1].cx = 140 /\ tracks[1].cy = 60

\* the second detection fails the test against the moved centroid and
\* spawns a track
C6_SpawnWitness ==
  \E p \in Procs :
    /\ pc[p] = "cleanup"
    /\ frames = 2
    /\ dets[p] = <<[DetA EXCEPT !.trackId = 1], [DetC EXCEPT !.trackId = 2]>>
    /\ Len(tracks) = 2


\* C7: emaExpressions with an absent previous vector returns exactly the
\* current vector, whatever alpha is; and the track created for an
\* unmatched detection holds that detection's raw expression vector.
C7_ColdStart ==
  /\ []((ema.n = 1 /\ ema.prev = Undefined) => ema.out = ema.cur)
  /\ [][\A p \in Procs : (AssignStep(p) /\ nextId' # nextId) =>
          /\ MapHas(tracks', nextId)
          /\ MapGet(tracks', nextId).exprEMA = dets[p][idx[p]].expressions]_vars

\* emaExpressions(undefined, E3, 0.9) has returned and the loop has made
\* a track from a detection carrying E3
C7_Witness ==
  /\ ema.n = 1
  /\ ema.prev = Undefined
  /\ ema.alpha = <<9, 10>>
  /\ ema.cur = Some(E3)
  /\ ema.out = Some(E3)
  /\ Len(tracks) = 1
  /\ tracks[1].exprEMA = Some(E3)

\* C8: on every match the matched track's smoothed expression becomes the
\* vector over exactly the keys of the detection's raw vector with value
\* 0.6 * previous[k] + 0.4 * raw[k] at each key k; its centroid becomes the
\* centroid of the detection's box and its lastSeen the frame's time.
C8_MatchUpdate ==
  [][\A p \in Procs : (AssignStep(p) /\ nextId' = nextId) =>
       LET det == dets[p][idx[p]]
           id == dets'[p][idx[p]].trackId
           old == MapGet(tracks, id)
           new == MapGet(tracks', id)
           raw == det.expressions[1]
       IN /\ MapHas(tracks, id)
          /\ DOMAIN new.exprEMA[1] = DOMAIN raw
          /\ \A k \in DOMAIN raw :
               new.exprEMA[1][k] = RatAdd(RatMul(<<3, 5>>, old.exprEMA[1][k]),
                                          RatMul(<<2, 5>>, raw[k]))
          /\ [x |-> new.cx, y |-> new.cy] = centerOf(det.box)
          /\ new.lastSeen = fnow[p]]_vars

\* a track smoothed twice: 0.6 * (0.6 * 0.9 + 0.4 * 0.5) + 0.4 * 0.9 = 0.804
C8_Witness ==
  \E i \in 1..Len(tracks) :
    /\ tracks[i].exprEMA = Some([happy |-> <<201, 250>>, neutral |-> <<49, 250>>])
    /\ tracks[i].lastSeen = clock

\* C9: after a frame every detection of its batch carries one identity,
\* and that identity is a key of the table as expiry left it.
C9_Annotated ==
  \A p \in Procs : pc[p] = "draw" =>
    \A i \in 1..Len(dets[p]) :
      /\ dets[p][i].trackId # 0
      /\ MapHas(tracks, dets[p][i].trackId)

\* a frame whose expiry removed track 1 while its own detections kept theirs
C9_Witness ==
  \E p \in Procs :
    /\ pc[p] = "draw"
    /\ Len(dets[p]) = 2
    /\ ~MapHas(tracks, 1)
    /\ MapHas(tracks, 2)
    /\ fnow[p] > 3000

\* C10: batches are processed atomically: while an activation is inside
\* assignTracks it holds the JavaScript thread, no other activation is
\* inside assignTracks, and every change of the table, of the identity
\* counter or of any activation's position is a step of that activation.
C10_Atomic ==
  /\ [](\A p \in Procs : InAssign(p) =>
          /\ cur = p
          /\ \A q \in Procs : InAssign(q) => q = p)
  /\ [][\A p \in Procs : InAssign(p) =>
          /\ pc'[p] # pc[p] \/ idx'[p] # idx[p]
          /\ \A q \in Procs \ {p} : pc'[q] = pc[q] /\ dets'[q] = dets[q]
          /\ running' = running /\ gum' = gum /\ play' = play]_vars

\* one loop chain is in the middle of a two-detection batch while a second
\* chain and an image load each have a detection in flight
C10_Witness ==
  \E p \in LoopProcs, q \in LoopProcs, r \in ImageProcs :
    /\ p # q
    /\ pc[p] = "assign" /\ idx[p] = 2
    /\ pc[q] = "detect"
    /\ pc[r] = "detect"
    /\ tracks # << >>

\* C11: an empty batch is processed like any other frame: it creates no
\* track, leaves the identity counter alone, leaves every surviving entry
\* exactly as it was and in the same order, and removes exactly the entries
\* with now - lastSeen > 3000; so the table is empty after an empty frame
\* whose time is more than 3000 ms past every lastSeen.
C11_EmptyBatch ==
  [][\A p \in Procs :
       /\ (pc[p] = "detect" /\ pc'[p] = "cleanup") =>
            /\ dets'[p] = << >>
            /\ tracks' = tracks /\ nextId' = nextId
       /\ (CleanupStep(p) /\ dets[p] = << >>) =>
            /\ nextId' = nextId
            /\ tracks' = SelectSeq(tracks, LAMBDA t : fnow[p] - t.lastSeen <= 3000)
            /\ MapKeys(tracks) \ MapKeys(tracks')
                 = {tracks[i].id : i \in {j \in 1..Len(tracks) :
                                            fnow[p] - tracks[j].lastSeen > 3000}}
            /\ (\A i \in 1..Len(tracks) : fnow[p] - tracks[i].lastSeen > 3000)
                 => tracks' = << >>
       /\ (pc[p] = "draw" /\ dets[p] = << >>) =>
            tracks' = tracks /\ nextId' = nextId]_vars

\* two empty frames after a frame that made two tracks: the first, 1500 ms
\* later, kept both; the second, 3001 ms after that, emptied the table
C11_Witness ==
  \E p \in Procs :
    /\ pc[p] = "draw"
    /\ dets[p] = << >>
    /\ frames = 3
    /\ fnow[p] = 50 + 1500 + 3001
    /\ tracks = << >>
    /\ nextId = 3

\* an empty frame that removed nothing: a track aged 1550 ms is kept
C11_KeepWitness ==
  \E p \in Procs :
    /\ pc[p] = "draw"
    /\ dets[p] = << >>
    /\ Len(tracks) = 1
    /\ fnow[p] - tracks[1].lastSeen = 1550

\* the smoothed vectors the table holds under the detection's identity
SmoothedFor(det, T) ==
  {T[i].exprEMA : i \in {j \in 1..Len(T) : T[j].id = det.trackId}} \ {Undefined}

\* C12: both lookups of drawBoxesAndEmojis use the detection's own raw
\* vector when its identity is unset or no key of the table, or when the
\* entry has no smoothed vector, and the entry's smoothed vector otherwise;
\* bestExpression then returns a name without throwing. At every draw of
\* the camera loop the smoothed vector of the detection's track is used.
C12_Fallback ==
  /\ \A r \in {ren.side, ren.face} \ {Undefined} :
       LET det == ren.det[1]
           smoothed == IF det.trackId = 0 THEN {} ELSE SmoothedFor(det, ren.tracks)
       IN /\ IF smoothed = {} THEN r[1].em = det.expressions
                              ELSE r[1].em \in smoothed
          /\ r[1].best # TypeError
          /\ r[1].best.name \in {"neutral", "happy"}
  /\ \A p \in Procs : pc[p] = "draw" =>
       \A i \in 1..Len(dets[p]) :
         /\ SidebarExpr(dets[p][i], tracks) = MapGet(tracks, dets[p][i].trackId).exprEMA
         /\ FaceExpr(dets[p][i], tracks) = MapGet(tracks, dets[p][i].trackId).exprEMA

\* a detection carrying identity 2 was rendered against a table that holds
\* identity 1 only: both lookups gave its raw vector, not the table's
C12_Witness ==
  /\ ren.det = Some([DetA EXCEPT !.trackId = 2])
  /\ ren.tracks = <<RenderTrack(1, Some(E2))>>
  /\ ren.side = Some([em |-> Some(E1), best |-> [name |-> "happy", score |-> <<9, 10>>]])
  /\ ren.face = ren.side
  /\ \E p \in LoopProcs :
       /\ pc[p] = "draw"
       /\ dets[p] = <<[DetB EXCEPT !.trackId = 1]>>
       /\ tracks = TableAB(100)

\* |p| < |q| for two rationals
RatAbsLess(p, q) == Abs(p[1]) * q[2] < Abs(q[1]) * p[2]

C14_Nearest ==
  \A p \in Procs : pc[p] = "assign" =>
    LET c == centerOf(dets[p][idx[p]].box)
        best == NearestActive(tracks, 1, c, fnow[p], NoBest)
        act == ActiveTracks(tracks, fnow[p])
    IN /\ best.id = 0 <=> act = {}
       /\ best.id # 0 =>
            \E i \in act :
              /\ tracks[i].id = best.id
              /\ best.d2 = Hypot2(c, tracks[i])
              /\ \A j \in act : Hypot2(c, tracks[j]) >= best.d2

\* two active tracks, the later one nearer to the detection: it is the
\* candidate
C14_Witness ==
  \E p \in Procs :
    /\ pc[p] = "assign"
    /\ Len(tracks) = 2
    /\ ActiveTracks(tracks, fnow[p]) = {1, 2}
    /\ LET c == centerOf(dets[p][idx[p]].box)
       IN /\ Hypot2(c, tracks[2]) < Hypot2(c, tracks[1])
          /\ NearestActive(tracks, 1, c, fnow[p], NoBest).id = tracks[2].id

\* a stale track lies nearer to the detection than the candidate, and a
\* frame whose tracks are all stale has no candidate
C14_StaleWitness ==
  \E p \in Procs :
    /\ pc[p] = "assign"
    /\ LET c == centerOf(dets[p][idx[p]].box)
           best == NearestActive(tracks, 1, c, fnow[p], NoBest)
       IN \/ /\ best.id # 0
             /\ \E i \in 1..Len(tracks) :
                  /\ fnow[p] - tracks[i].lastSeen > 1500
                  /\ Hypot2(c, tracks[i]) < best.d2
          \/ /\ best.id = 0
             /\ tracks # << >>

\* every identity the bounded model can hand out
Ids == 1..(MaxFrames * MaxBatch)

\* C15: expiry runs once per frame, after matching: after every frame at
\* time now no track with now - lastSeen > 3000 is left, so a track that is
\* not matched again is removed by the first frame more than 3000 ms after
\* its last match (once such a frame has reached its expiry pass, the track
\* is eventually gone); a removed identity is never in the table again; and
\* the tracks touched or created by a frame are never removed by that
\* frame's expiry.
C15_Expiry ==
  /\ [](\A p \in Procs : pc[p] = "draw" =>
          \A i \in 1..Len(tracks) : fnow[p] - tracks[i].lastSeen <= 3000)
  /\ [][\A p \in Procs : CleanupStep(p) =>
          /\ \A i \in 1..Len(tracks) :
               tracks[i].lastSeen = fnow[p] =>
                 (MapHas(tracks', tracks[i].id) /\ MapGet(tracks', tracks[i].id) = tracks[i])
          /\ \A i \in 1..Len(dets[p]) : MapHas(tracks', dets[p][i].trackId)]_vars
  /\ [][\A id \in 1..(nextId - 1) :
          ~MapHas(tracks, id) => ~MapHas(tracks', id)]_vars
  /\ \A id \in Ids :
       (\E p \in Procs : /\ pc[p] = "cleanup"
                         /\ MapHas(tracks, id)
                         /\ fnow[p] - MapGet(tracks, id).lastSeen > 3000)
         ~> ~MapHas(tracks, id)

\* a frame 3001 ms after the first removed track 1 and kept the track it
\* created itself
C15_Witness ==
  \E p \in Procs :
    /\ pc[p] = "draw"
    /\ frames = 2
    /\ fnow[p] = 1500 + 3001
    /\ ~MapHas(tracks, 1)
    /\ Len(tracks) = 1
    /\ tracks[1].id = 2
    /\ tracks[1].lastSeen = fnow[p]

\* C16: processing one detection leaves every entry other than the one it
\* is assigned exactly as it was and where it was; a match rewrites the
\* matched entry in place, adds and removes nothing and leaves the identity
\* counter alone; the expiry pass only deletes; and outside assignTracks
\* neither the table nor the counter changes.
C16_MatchEffect ==
  [][/\ \A p \in Procs :
          /\ AssignStep(p) =>
               LET got == dets'[p][idx[p]].trackId
               IN /\ \A i \in 1..Len(tracks) :
                       tracks[i].id # got => tracks'[i] = tracks[i]
                  /\ MapHas(tracks, got) =>
                       /\ nextId' = nextId
                       /\ Len(tracks') = Len(tracks)
                       /\ tracks'[MapIndex(tracks, got)].id = got
                  /\ \A q \in Procs \ {p} : dets'[q] = dets[q]
          /\ CleanupStep(p) =>
               /\ nextId' = nextId
               /\ \A id \in MapKeys(tracks') :
                    MapHas(tracks, id) /\ MapGet(tracks', id) = MapGet(tracks, id)
     /\ (\A p \in Procs : ~InAssign(p)) => (tracks' = tracks /\ nextId' = nextId)]_vars

\* second frame: DetFar is matched to track 2 while track 1, out of reach,
\* stays as the first frame left it
C16_Witness ==
  \E p \in Procs :
    /\ pc[p] = "cleanup"
    /\ frames = 2
    /\ dets[p] = <<[DetFar EXCEPT !.trackId = 2]>>
    /\ nextId = 3
    /\ Len(tracks) = 2
    /\ tracks[1] = [id |-> 1, cx |-> 60, cy |-> 60, lastSeen |-> 50,
                    exprEMA |-> Some(E1)]
    /\ tracks[2].lastSeen = fnow[p]
    /\ fnow[p] = 100

\* C17: the identity a detection gets, the table and the counter after it
\* are fixed by the table and counter before it, the detection and the
\* frame's time: when the nearest active tracks are within reach the
\* identity is that of the first of them in insertion order, which is the
\* smallest identity among them (the earliest created), and that entry is
\* rewritten in place; otherwise the identity is nextId and its entry is
\* appended.
C17_TieBreak ==
  [][\A p \in Procs : AssignStep(p) =>
       LET det == dets[p][idx[p]]
           c == centerOf(det.box)
           got == dets'[p][idx[p]].trackId
           near == {i \in 1..Len(tracks) : IsNearest(tracks, fnow[p], c, i)}
           raw == det.expressions[1]
       IN IF \E i \in near : Hypot2(c, tracks[i]) < Radius2(det)
          THEN /\ got = tracks[CHOOSE i \in near : \A j \in near : i <= j].id
               /\ \A i \in near : got <= tracks[i].id
               /\ nextId' = nextId
               /\ tracks' =
                    [i \in 1..Len(tracks) |->
                       IF tracks[i].id # got THEN tracks[i]
                       ELSE [id |-> got, cx |-> c.x, cy |-> c.y,
                             lastSeen |-> fnow[p],
                             exprEMA |->
                               Some([k \in DOMAIN raw |->
                                       RatAdd(RatMul(<<3, 5>>, tracks[i].exprEMA[1][k]),
                                              RatMul(<<2, 5>>, raw[k]))])]]
          ELSE /\ got = nextId
               /\ nextId' = nextId + 1
               /\ tracks' = Append(tracks, [id |-> got, cx |-> c.x, cy |-> c.y,
                                            lastSeen |-> fnow[p],
                                            exprEMA |-> det.expressions])]_vars

\* tracks 1 at (30, 30) and 2 at (70, 30), both active; DetMid at (50, 30)
\* is 20 px from each and is given identity 1
C17_Witness ==
  \E p \in Procs :
    /\ pc[p] = "cleanup"
    /\ frames = 2
    /\ dets[p] = <<[DetMid EXCEPT !.trackId = 1]>>
    /\ Len(tracks) = 2
    /\ tracks[1].id = 1 /\ tracks[1].cx = 100 /\ tracks[1].cy = 60
    /\ tracks[2].id = 2 /\ tracks[2].cx = 140 /\ tracks[2].cy = 60
    /\ tracks[2].lastSeen = fnow[p] - 50

\* C18: at most one camera loop chain is alive at any time.
C18_OneLoop == Cardinality(Chains) <= 1

\* C19: while running is false and no startCamera call is pending, no camera
\* loop chain is inside assignTracks or about to draw its batch.
C19_StoppedLoopIdle ==
  \A p \in LoopProcs :
    (pc[p] \in {"assign", "cleanup", "draw"} /\ gum + play = 0) => running

\* C20: when an activation has finished a batch (camera frame or image),
\* lastDetections, the value the dump button exports, is a record whose
\* count is the size of that batch and whose entries carry the identities
\* assigned to its detections.
C20_ExportLatest ==
  [][\A p \in Procs : (pc[p] = "draw" /\ pc'[p] # "draw") =>
       /\ lastDetections' # Undefined
       /\ lastDetections'[1].count = Len(dets[p])
       /\ Len(lastDetections'[1].detections) = Len(dets[p])
       /\ \A i \in 1..Len(dets[p]) :
            lastDetections'[1].detections[i].id = dets[p][i].trackId]_vars

====
